---- MODULE Spec2Model ----
(***************************************************************************)
(* Model of the process-lookup service: the three versions of the          *)
(* /api/processo route (remote-primary / local-backup loader + GET),       *)
(* and the finder and the aggregators of the server actions (actions.ts).  *)
(*                                                                         *)
(*   variant "A"  src/unnamed/part_001 lines 1-178   (updateLocalCache)    *)
(*   variant "B"  src/unnamed/part_001 lines 180-336 (no backup write)     *)
(*   variant "C"  src/app/api/processo/route.ts      (id-keyed lookup)     *)
(*                                                                         *)
(* File contents are sequences of tokens: the punctuation of JSON, the     *)
(* literal null, and one token per record object.                          *)
(***************************************************************************)
EXTENDS Integers, Sequences, FiniteSets, TLC

\* Number of requests that may be in flight.
NumReq == 2

Reqs == 1..NumReq

Variants == {"A", "B", "C"}

-----------------------------------------------------------------------------
(* Data model                                                              *)

\* The values a JSON file can give the field dias: a number, a string (its
\* characters), null, or no such property (reads as undefined).
Num(n) == [t |-> "number", n |-> n, s |-> <<>>]
Str(s) == [t |-> "string", n |-> 0, s |-> s]
JNull == [t |-> "null", n |-> 0, s |-> <<>>]
JMissing == [t |-> "undefined", n |-> 0, s |-> <<>>]

\* The Process interface.
Rec(processo, unidade, tipo_tabela, dias, posicao) ==
  [type |-> "object", processo |-> processo, unidade |-> unidade,
   tipo_tabela |-> tipo_tabela, dias |-> dias, posicao |-> posicao]

RecTokens == {"r1", "r2", "r3", "r4", "r5", "r6", "r7", "r8", "r9"}

\* r1 and r3 carry the same processo.
RecordOf(tok) ==
  CASE tok = "r1" -> Rec("p1", "U1", "T1", Num(5), 1)
    [] tok = "r2" -> Rec("p2", "U1", "T2", Num(2), 2)
    [] tok = "r3" -> Rec("p1", "U2", "T1", Num(7), 3)
    [] tok = "r4" -> Rec("p4", "U1", "T1", JNull, 4)
    [] tok = "r5" -> Rec("p5", "U1", "T1", Str(<<"a", "b", "c">>), 5)
    [] tok = "r6" -> Rec("p6", "U1", "T1", Num(-1), 6)
    [] tok = "r7" -> Rec("p7", "U1", "T1", Str(<<"2", "x">>), 7)
    [] tok = "r8" -> Rec("p8", "U2", "T2", JMissing, 8)
    [] tok = "r9" -> Rec("p9", "U1", "T2", Num(0), 9)
    [] OTHER      -> [type |-> "null", processo |-> "", unidade |-> "",
                      tipo_tabela |-> "", dias |-> JMissing, posicao |-> 0]

\* JavaScript undefined / "no record" in a response body.
Undefined == [type |-> "undefined", processo |-> "", unidade |-> "",
              tipo_tabela |-> "", dias |-> JMissing, posicao |-> 0]

\* The snapshots the upstream process may leave at the primary location.
ListOne   == <<"[", "r1", "]">>
ListDup   == <<"[", "r3", ",", "r1", ",", "r2", "]">>
ListNull  == <<"[", "null", ",", "r2", "]">>
MapShape  == <<"{", "r1", ",", "r2", "}">>
Truncated == <<"[", "r1", ",">>

Snapshots == {ListOne, ListDup, ListNull, MapShape, Truncated}

-----------------------------------------------------------------------------
(* JSON.parse and Array.isArray                                            *)

IsElems(s, toks) ==
  \/ Len(s) = 0
  \/ /\ Len(s) % 2 = 1
     /\ \A i \in 1..Len(s) : IF i % 2 = 1 THEN s[i] \in toks ELSE s[i] = ","

Elems(s) == [i \in 1..((Len(s) + 1) \div 2) |-> RecordOf(s[2 * i - 1])]

Inner(s) == SubSeq(s, 2, Len(s) - 1)

JSONparse(s) ==
  IF Len(s) >= 2 /\ s[1] = "[" /\ s[Len(s)] = "]"
     /\ IsElems(Inner(s), RecTokens \cup {"null"})
  THEN [kind |-> "list", value |-> Elems(Inner(s))]
  ELSE IF Len(s) >= 2 /\ s[1] = "{" /\ s[Len(s)] = "}"
          /\ IsElems(Inner(s), RecTokens)
  THEN [kind |-> "object", value |-> Elems(Inner(s))]
  ELSE [kind |-> "SyntaxError", value |-> <<>>]

IsArray(p) == p.kind = "list"

-----------------------------------------------------------------------------
(* Finders                                                                 *)

\* cacheArray.find((item) => item.processo === processo): the first match in
\* order; reading .processo of a null element throws a TypeError.
RECURSIVE FindFrom(_, _, _)
FindFrom(list, id, i) ==
  IF i > Len(list) THEN [outcome |-> "undefined", record |-> Undefined]
  ELSE IF list[i].type = "null" THEN [outcome |-> "TypeError", record |-> Undefined]
  ELSE IF list[i].processo = id THEN [outcome |-> "found", record |-> list[i]]
  ELSE FindFrom(list, id, i + 1)

\* Mutant of Find: the scan keeps the last match instead of stopping at the first.
RECURSIVE FindLastFrom(_, _, _, _)
FindLastFrom(list, id, i, best) ==
  IF i > Len(list) THEN best
  ELSE IF list[i].type = "null" THEN [outcome |-> "TypeError", record |-> Undefined]
  ELSE IF list[i].processo = id
       THEN FindLastFrom(list, id, i + 1, [outcome |-> "found", record |-> list[i]])
  ELSE FindLastFrom(list, id, i + 1, best)

Find_Last(list, id) ==
  FindLastFrom(list, id, 1, [outcome |-> "undefined", record |-> Undefined])

Find(list, id) == FindFrom(list, id, 1)

\* cache[processo] of route.ts: a property read on whatever JSON.parse gave.
\* An object's entry for the key (the last one written for it wins); an array
\* has no property named by a process id.
Lookup(parsed, key) ==
  IF parsed.kind = "object" /\ \E i \in 1..Len(parsed.value) : parsed.value[i].processo = key
  THEN LET last == CHOOSE i \in 1..Len(parsed.value) :
                     /\ parsed.value[i].processo = key
                     /\ \A j \in (i + 1)..Len(parsed.value) : parsed.value[j].processo # key
       IN  [outcome |-> "found", record |-> parsed.value[last]]
  ELSE [outcome |-> "undefined", record |-> Undefined]

-----------------------------------------------------------------------------
(* Request parameters                                                      *)

Param(present, value) == [present |-> present, value |-> value]

\* searchParams.get("numero"): absent, or the query-decoded text.
NumeroParams ==
  {Param(FALSE, ""), Param(TRUE, "p1"), Param(TRUE, " p1 "), Param(TRUE, "p2"),
   Param(TRUE, ""), Param(TRUE, " "), Param(TRUE, "p%31"), Param(TRUE, "%")}

\* !processo
Falsy(p) == ~p.present \/ p.value = ""

\* decodeURIComponent throws a URIError on a "%" that two hexadecimal
\* digits do not follow.
Malformed(v) == v = "%"

\* decodeURIComponent(processo || "").trim(): escapes are replaced ("%31" is
\* "1") and the white space at both ends is dropped.
DecodeTrim(v) ==
  CASE v = " p1 " -> "p1"
    [] v = " "    -> ""
    [] v = "p%31" -> "p1"
    [] OTHER      -> v

\* Whether deriving the key throws: route.ts does not decode.
KeyThrows(v, p) == v # "C" /\ Malformed(p.value)

\* The lookup key each version of GET derives from the parameter.
KeyOf(v, p) == IF v = "C" THEN p.value ELSE DecodeTrim(p.value)

-----------------------------------------------------------------------------
(* Errors and results                                                      *)

\* statusCode 0: the error object has no statusCode property.
Err(name, message, statusCode) ==
  [name |-> name, message |-> message, statusCode |-> statusCode]

NoErr == Err("", "", 0)

\* What fs.readFile rejects with, per location.
remoteError == Err("Error", "ENOENT remote", 0)
localError  == Err("Error", "ENOENT local", 0)

NoParse == [kind |-> "none", value |-> <<>>]

Returned(parsed) == [outcome |-> "returned", parsed |-> parsed, err |-> NoErr]
Threw(err)       == [outcome |-> "threw", parsed |-> NoParse, err |-> err]
NoLoad           == [outcome |-> "none", parsed |-> NoParse, err |-> NoErr]

Response(status, record, message) ==
  [status |-> status, record |-> record, message |-> message]

NoResponse == Response(0, Undefined, "")

\* GET ended by an exception it did not catch: no response of its own.
Escaped(name) == Response(0, Undefined, name)

\* Mutant of ParseValidate: the negation of the Array.isArray test is lost.
ParseValidate_Inverted(content) ==
  LET parsedData == JSONparse(content) IN
  IF parsedData.kind = "SyntaxError"
  THEN Threw(Err("Error", "Erro de parse", 500))
  ELSE IF IsArray(parsedData)
  THEN Threw(Err("Error", "Falha no processamento do cache", 503))
  ELSE Returned(parsedData)

\* The parse-and-validate tail of getProcessCache in part_001 (both versions).
ParseValidate(content) ==
  LET parsedData == JSONparse(content) IN
  IF parsedData.kind = "SyntaxError"
  THEN Threw(Err("Error", "Erro de parse", 500))
  ELSE IF ~IsArray(parsedData)
  THEN Threw(Err("Error", "Falha no processamento do cache", 503))
  ELSE Returned(parsedData)

\* The part of GET that follows the await of getProcessCache, part_001.
RespondArray(key, ld) ==
  IF ld.outcome = "returned"
  THEN LET processData == Find(ld.parsed.value, key) IN
       CASE processData.outcome = "found" -> Response(200, processData.record, "")
         [] processData.outcome = "undefined" ->
              Response(404, Undefined, "Processo nao encontrado ou ainda nao analisado.")
         [] OTHER -> Response(500, Undefined, "TypeError")
  ELSE Response(IF ld.err.statusCode # 0 THEN ld.err.statusCode ELSE 500,
                Undefined, ld.err.message)

\* The part of GET that follows the await of getProcessCache, route.ts.
RespondKeyed(key, ld) ==
  IF ld.outcome = "returned"
  THEN LET processData == Lookup(ld.parsed, key) IN
       IF processData.outcome = "found"
       THEN Response(200, processData.record, "")
       ELSE Response(404, Undefined, "Processo nao encontrado")
  ELSE Response(500, Undefined, ld.err.message)

Respond(v, key, ld) ==
  IF v = "C" THEN RespondKeyed(key, ld) ELSE RespondArray(key, ld)

-----------------------------------------------------------------------------
(* State                                                                   *)

VARIABLES
  variant,          \* which version of the route is deployed
  remote,           \* CACHE_FILE_PATH_REMOTE: [up, data]
  localDir,         \* whether the backup file's parent directory exists
  local,            \* the backup file: [exists, data]
  pc,               \* per request: position in GET / getProcessCache
  numero,           \* per request: searchParams.get("numero")
  fileContent,      \* per request: the text read
  attemptPath,      \* per request: "remote" or "local", the location being used
  isRemoteSuccess,  \* per request: the flag of part_001's first version
  load,             \* per request: how getProcessCache ended
  response,         \* per request: the NextResponse returned
  remoteRead,       \* per request: history of the primary read
  localRead,        \* per request: history of the secondary read
  backup,           \* per request: history of the backup write
  dataDir,          \* the data directory of the server actions
  call              \* the last server action called, with its result

vars == <<variant, remote, localDir, local, pc, numero, fileContent, attemptPath,
          isRemoteSuccess, load, response, remoteRead, localRead, backup,
          dataDir, call>>

actVars == <<dataDir, call>>

fsVars  == <<remote, localDir, local>>
reqVars == <<pc, numero, fileContent, attemptPath, isRemoteSuccess, load,
             response, remoteRead, localRead, backup>>

\* History of a read: result is "none", "ok" or "failed".
ReadRec(result, data) == [result |-> result, data |-> data]
NoRead == ReadRec("none", <<>>)

RemoteStates == {[up |-> FALSE, data |-> <<>>]} \cup {[up |-> TRUE, data |-> d] : d \in Snapshots}
LocalStates  == {[exists |-> FALSE, data |-> <<>>]} \cup {[exists |-> TRUE, data |-> d] : d \in Snapshots}

InitRoute ==
  /\ variant \in Variants
  /\ remote \in RemoteStates
  /\ local \in LocalStates
  /\ localDir \in {d \in BOOLEAN : local.exists => d}
  /\ pc = [r \in Reqs |-> "idle"]
  /\ numero = [r \in Reqs |-> Param(FALSE, "")]
  /\ fileContent = [r \in Reqs |-> <<>>]
  /\ attemptPath = [r \in Reqs |-> "remote"]
  /\ isRemoteSuccess = [r \in Reqs |-> FALSE]
  /\ load = [r \in Reqs |-> NoLoad]
  /\ response = [r \in Reqs |-> NoResponse]
  /\ remoteRead = [r \in Reqs |-> NoRead]
  /\ localRead = [r \in Reqs |-> NoRead]
  /\ backup = [r \in Reqs |-> "none"]

-----------------------------------------------------------------------------
(* File system                                                             *)

\* Mutant of Overwrite: the write stops short of the last token.
Overwrite_Short(old, data) ==
  SubSeq(data, 1, Len(data) - 1) \o SubSeq(old, Len(data), Len(old))

\* A write of `data` at offset 0 of a file holding `old`: what lies beyond
\* the written range stays.
Overwrite(old, data) == data \o SubSeq(old, Len(data) + 1, Len(old))

\* The upstream process replaces the primary snapshot, or the mount comes or goes.
EnvRemote ==
  /\ \E s \in RemoteStates \ {remote} : remote' = s
  /\ UNCHANGED <<variant, localDir, local>>
  /\ UNCHANGED reqVars
  /\ UNCHANGED actVars

-----------------------------------------------------------------------------
(* GET and getProcessCache, one action per await                           *)

\* getProcessCache ends (returns or throws) and GET builds its response.
EndLoad(r, ld) ==
  /\ load' = [load EXCEPT ![r] = ld]
  /\ response' = [response EXCEPT ![r] = Respond(variant, KeyOf(variant, numero[r]), ld)]
  /\ pc' = [pc EXCEPT ![r] = "done"]

\* GET up to the call of getProcessCache.
Begin(r, p) ==
  /\ pc[r] = "idle"
  /\ numero' = [numero EXCEPT ![r] = p]
  /\ IF Falsy(p)
     THEN /\ response' = [response EXCEPT ![r] = Response(400, Undefined, "Numero do processo e obrigatorio.")]
          /\ pc' = [pc EXCEPT ![r] = "done"]
     ELSE IF KeyThrows(variant, p)
     THEN /\ response' = [response EXCEPT ![r] = Escaped("URIError")]
          /\ pc' = [pc EXCEPT ![r] = "done"]
     ELSE /\ pc' = [pc EXCEPT ![r] = "readRemote"]
          /\ UNCHANGED response
  /\ UNCHANGED <<variant, fileContent, attemptPath, isRemoteSuccess, load,
                 remoteRead, localRead, backup>>
  /\ UNCHANGED fsVars
  /\ UNCHANGED actVars

\* Requests served one at a time.
GET_Begin(r) ==
  /\ \A q \in Reqs : pc[q] = "idle"
  /\ \E p \in NumeroParams : Begin(r, p)

\* Requests that overlap.  The loader does not read the parameter, so the
\* overlapping requests all ask for the same process.
GET_BeginConcurrent(r) == Begin(r, Param(TRUE, "p1"))

\* Where each version goes after a successful primary read.
AfterRemoteRead(v) ==
  CASE v = "A" -> "mkdir"
    [] v = "B" -> "parse"
    [] OTHER   -> "writeOpen"

\* readFileSafe(CACHE_FILE_PATH_REMOTE)
ReadRemote(r) ==
  /\ pc[r] = "readRemote"
  /\ IF remote.up
     THEN /\ fileContent' = [fileContent EXCEPT ![r] = remote.data]
          /\ isRemoteSuccess' = [isRemoteSuccess EXCEPT ![r] = (variant = "A")]
          /\ remoteRead' = [remoteRead EXCEPT ![r] = ReadRec("ok", remote.data)]
          /\ pc' = [pc EXCEPT ![r] = AfterRemoteRead(variant)]
          /\ UNCHANGED attemptPath
     ELSE /\ remoteRead' = [remoteRead EXCEPT ![r] = ReadRec("failed", <<>>)]
          /\ attemptPath' = [attemptPath EXCEPT ![r] = "local"]
          /\ pc' = [pc EXCEPT ![r] = "readLocal"]
          /\ UNCHANGED <<fileContent, isRemoteSuccess>>
  /\ UNCHANGED <<variant, numero, load, response, localRead, backup>>
  /\ UNCHANGED fsVars
  /\ UNCHANGED actVars

\* Where a failed backup write leads: part_001 logs it and goes on to parse
\* what it read; route.ts has the write inside the try of the primary read,
\* so its catch reads the backup.
AfterWriteFailure(v) == IF v = "A" THEN "parse" ELSE "readLocal"

WriteFails(r) ==
  /\ backup' = [backup EXCEPT ![r] = "failed"]
  /\ pc' = [pc EXCEPT ![r] = AfterWriteFailure(variant)]
  /\ attemptPath' = [attemptPath EXCEPT ![r] = IF variant = "A" THEN attemptPath[r] ELSE "local"]

\* fs.mkdir(dirPath, { recursive: true }) of updateLocalCache
Mkdir(r) ==
  /\ pc[r] = "mkdir"
  /\ \/ /\ localDir' = TRUE
        /\ pc' = [pc EXCEPT ![r] = "writeOpen"]
        /\ UNCHANGED <<backup, attemptPath>>
     \/ /\ WriteFails(r)
        /\ UNCHANGED localDir
  /\ UNCHANGED <<variant, remote, local, numero, fileContent, isRemoteSuccess,
                 load, response, remoteRead, localRead>>
  /\ UNCHANGED actVars

\* fs.writeFile, first half: the file is opened for writing, which creates
\* or empties it.
WriteOpen(r) ==
  /\ pc[r] = "writeOpen"
  /\ \/ /\ localDir
        /\ local' = [exists |-> TRUE, data |-> <<>>]
        /\ pc' = [pc EXCEPT ![r] = "writeData"]
        /\ UNCHANGED <<backup, attemptPath>>
     \/ /\ WriteFails(r)
        /\ UNCHANGED local
  /\ UNCHANGED <<variant, remote, localDir, numero, fileContent, isRemoteSuccess,
                 load, response, remoteRead, localRead>>
  /\ UNCHANGED actVars

\* fs.writeFile, second half: the text is written from offset 0.
WriteData(r) ==
  /\ pc[r] = "writeData"
  /\ \/ /\ local' = [local EXCEPT !.data = Overwrite(local.data, fileContent[r])]
        /\ backup' = [backup EXCEPT ![r] = "ok"]
        /\ pc' = [pc EXCEPT ![r] = "parse"]
        /\ UNCHANGED attemptPath
     \/ /\ WriteFails(r)
        /\ UNCHANGED local
  /\ UNCHANGED <<variant, remote, localDir, numero, fileContent, isRemoteSuccess,
                 load, response, remoteRead, localRead>>
  /\ UNCHANGED actVars

\* What getProcessCache throws when the secondary read fails too.
TotalFailure(v) ==
  IF v = "C" THEN Err("Error", "Sistema indisponivel: Falha no cache primario e backup.", 0)
  ELSE localError

\* Mutant of ReadLocal: a read that finds no file leaves an empty one behind.
ReadLocal_Touch(r) ==
  /\ pc[r] = "readLocal"
  /\ IF local.exists
     THEN /\ fileContent' = [fileContent EXCEPT ![r] = local.data]
          /\ localRead' = [localRead EXCEPT ![r] = ReadRec("ok", local.data)]
          /\ pc' = [pc EXCEPT ![r] = "parse"]
          /\ UNCHANGED <<load, response, local>>
     ELSE /\ localRead' = [localRead EXCEPT ![r] = ReadRec("failed", <<>>)]
          /\ EndLoad(r, Threw(TotalFailure(variant)))
          /\ local' = [exists |-> TRUE, data |-> <<>>]
          /\ UNCHANGED fileContent
  /\ UNCHANGED <<variant, numero, attemptPath, isRemoteSuccess, remoteRead, backup>>
  /\ UNCHANGED <<remote, localDir>>
  /\ UNCHANGED actVars

\* readFileSafe(CACHE_FILE_PATH) in the catch of the primary read
ReadLocal(r) ==
  /\ pc[r] = "readLocal"
  /\ IF local.exists
     THEN /\ fileContent' = [fileContent EXCEPT ![r] = local.data]
          /\ localRead' = [localRead EXCEPT ![r] = ReadRec("ok", local.data)]
          /\ pc' = [pc EXCEPT ![r] = "parse"]
          /\ UNCHANGED <<load, response>>
     ELSE /\ localRead' = [localRead EXCEPT ![r] = ReadRec("failed", <<>>)]
          /\ EndLoad(r, Threw(TotalFailure(variant)))
          /\ UNCHANGED fileContent
  /\ UNCHANGED <<variant, numero, attemptPath, isRemoteSuccess, remoteRead, backup>>
  /\ UNCHANGED fsVars
  /\ UNCHANGED actVars

\* JSON.parse of route.ts: no shape check; a SyntaxError in the backup's text
\* is caught by the inner catch, which throws the total-failure error.
ParseKeyed(content) ==
  LET parsed == JSONparse(content) IN
  IF parsed.kind = "SyntaxError" THEN Threw(TotalFailure("C")) ELSE Returned(parsed)

\* The parse step, then the rest of GET (no await in between).  In route.ts
\* a SyntaxError in the primary's text is caught by the catch that reads the
\* backup.
Parse(r) ==
  /\ pc[r] = "parse"
  /\ IF variant = "C" /\ attemptPath[r] = "remote"
        /\ JSONparse(fileContent[r]).kind = "SyntaxError"
     THEN /\ pc' = [pc EXCEPT ![r] = "readLocal"]
          /\ attemptPath' = [attemptPath EXCEPT ![r] = "local"]
          /\ UNCHANGED <<load, response>>
     ELSE /\ EndLoad(r, IF variant = "C" THEN ParseKeyed(fileContent[r])
                        ELSE ParseValidate(fileContent[r]))
          /\ UNCHANGED attemptPath
  /\ UNCHANGED <<variant, numero, fileContent, isRemoteSuccess, remoteRead,
                 localRead, backup>>
  /\ UNCHANGED fsVars
  /\ UNCHANGED actVars

\* The response is delivered; the request slot is free for the next request.
Finish(r) ==
  /\ pc[r] = "done"
  /\ pc' = [pc EXCEPT ![r] = "idle"]
  /\ numero' = [numero EXCEPT ![r] = Param(FALSE, "")]
  /\ fileContent' = [fileContent EXCEPT ![r] = <<>>]
  /\ attemptPath' = [attemptPath EXCEPT ![r] = "remote"]
  /\ isRemoteSuccess' = [isRemoteSuccess EXCEPT ![r] = FALSE]
  /\ load' = [load EXCEPT ![r] = NoLoad]
  /\ response' = [response EXCEPT ![r] = NoResponse]
  /\ remoteRead' = [remoteRead EXCEPT ![r] = NoRead]
  /\ localRead' = [localRead EXCEPT ![r] = NoRead]
  /\ backup' = [backup EXCEPT ![r] = "none"]
  /\ UNCHANGED variant
  /\ UNCHANGED fsVars
  /\ UNCHANGED actVars

Step(r) ==
  \/ ReadRemote(r)
  \/ Mkdir(r)
  \/ WriteOpen(r)
  \/ WriteData(r)
  \/ ReadLocal(r)
  \/ Parse(r)

-----------------------------------------------------------------------------
(* Server actions: readProcessesData and getProcessByNumber                *)

MaxFiles == 2
MaxMtime == 2

\* File names, as the pieces startsWith and endsWith look at.
FileNames == { <<"tabela_processos", ".json">>,
               <<"tabela_processos", "_v2", ".json">>,
               <<"tabela_processos", ".bak">>,
               <<"old_", "tabela_processos", ".json">> }

DirSnapshots == {ListOne, ListDup, ListNull, MapShape}

DirFile == [name : FileNames, mtime : 1..MaxMtime, data : DirSnapshots]

\* Which I/O call of readProcessesData rejects, if any.
Faults == {"none", "readdir", "stat", "readFile"}

Listings ==
  UNION { { f \in [1..n -> DirFile] : \A i, j \in 1..n : i # j => f[i].name # f[j].name }
          : n \in 0..MaxFiles }

\* fileName.startsWith("tabela_processos") && fileName.endsWith(".json")
ValidName(name) == name[1] = "tabela_processos" /\ name[Len(name)] = ".json"

IsValidFile(f) == ValidName(f.name)

\* Mutant of MostRecent: the sort is ascending, the oldest file comes first.
MostRecent_Oldest(files) ==
  files[CHOOSE i \in 1..Len(files) :
          /\ \A j \in 1..Len(files) : files[j].mtime >= files[i].mtime
          /\ \A j \in 1..(i - 1) : files[j].mtime > files[i].mtime]

\* fileStats.sort((a, b) => b.mtime - a.mtime)[0]: the sort is stable, so of
\* the files with the greatest mtime the first in listing order comes first.
MostRecent(files) ==
  files[CHOOSE i \in 1..Len(files) :
          /\ \A j \in 1..Len(files) : files[j].mtime <= files[i].mtime
          /\ \A j \in 1..(i - 1) : files[j].mtime < files[i].mtime]

readProcessesData(dir) ==
  LET validFiles == SelectSeq(dir.files, IsValidFile) IN
  IF dir.fault = "readdir" THEN <<>>
  ELSE IF Len(validFiles) = 0 THEN <<>>
  ELSE IF dir.fault \in {"stat", "readFile"} THEN <<>>
  ELSE LET allProcesses == JSONparse(MostRecent(validFiles).data) IN
       IF allProcesses.kind = "SyntaxError" THEN <<>>
       ELSE IF ~IsArray(allProcesses) THEN <<>>
       ELSE allProcesses.value

\* processes.find((process) => process.processo === numeroDoProcesso), with
\* nothing around it to catch what find throws.
getProcessByNumber(dir, numeroDoProcesso) ==
  Find(readProcessesData(dir), numeroDoProcesso)

\* The identifiers the callers pass.
Ids == {"p1", "p2", "p", " p1 ", "p9"}

Call(op, arg, result) == [op |-> op, arg |-> arg, result |-> result]

NoCall == Call("none", "", [outcome |-> "none", record |-> Undefined])

GetProcessByNumber ==
  /\ \E id \in Ids : call' = Call("getProcessByNumber", id, getProcessByNumber(dataDir, id))
  /\ UNCHANGED dataDir
  /\ UNCHANGED <<variant, remote, localDir, local>>
  /\ UNCHANGED reqVars

-----------------------------------------------------------------------------
(* Numbers of JavaScript, as far as the aggregators use them               *)

\* A number: NaN, or the integer n. Averages and percentages are carried
\* in hundredths.
NaN == [nan |-> TRUE, n |-> 0]
Number(n) == [nan |-> FALSE, n |-> n]

IsDigit(c) == c \in {"0", "1", "2", "3", "4", "5", "6", "7", "8", "9"}

DigitVal(c) ==
  CASE c = "0" -> 0 [] c = "1" -> 1 [] c = "2" -> 2 [] c = "3" -> 3
    [] c = "4" -> 4 [] c = "5" -> 5 [] c = "6" -> 6 [] c = "7" -> 7
    [] c = "8" -> 8 [] OTHER -> 9

DigitChar(d) ==
  CASE d = 0 -> "0" [] d = 1 -> "1" [] d = 2 -> "2" [] d = 3 -> "3"
    [] d = 4 -> "4" [] d = 5 -> "5" [] d = 6 -> "6" [] d = 7 -> "7"
    [] d = 8 -> "8" [] OTHER -> "9"

\* The end of the run of digits of s that starts at position i.
RECURSIVE DigitsEnd(_, _)
DigitsEnd(s, i) ==
  IF i <= Len(s) /\ IsDigit(s[i]) THEN DigitsEnd(s, i + 1) ELSE i - 1

\* The value of the digits s[i..j].
RECURSIVE DigitsValue(_, _, _)
DigitsValue(s, i, j) ==
  IF j < i THEN 0 ELSE 10 * DigitsValue(s, i, j - 1) + DigitVal(s[j])

\* parseFloat of a string: an optional sign and the longest run of digits
\* that follows; what comes after the run is ignored; no digit gives NaN.
ParsePrefix(s) ==
  LET neg   == Len(s) >= 1 /\ s[1] = "-"
      first == IF neg THEN 2 ELSE 1
      last  == DigitsEnd(s, first)
  IN  IF last < first THEN NaN
      ELSE Number((IF neg THEN -1 ELSE 1) * DigitsValue(s, first, last))

\* parseFloat(process.dias as unknown as string): the argument is turned
\* into a string first, so null and undefined give NaN.
parseFloat(v) ==
  CASE v.t = "number" -> Number(v.n)
    [] v.t = "string" -> ParsePrefix(v.s)
    [] OTHER          -> NaN

\* Number.isFinite
IsFinite(x) == ~x.nan

\* Number.isFinite(diasAsNumber) && diasAsNumber > 0
IsValidDias(process) ==
  LET diasAsNumber == parseFloat(process.dias)
  IN  IsFinite(diasAsNumber) /\ diasAsNumber.n > 0

\* Math.ceil(a / b), b > 0
Ceil(a, b) == -((-a) \div b)

\* The hundredths of (a / b).toFixed(2), b > 0: the nearest, the sign kept.
ToFixed2(a, b) ==
  LET mag == IF a < 0 THEN -a ELSE a
      q   == (200 * mag + b) \div (2 * b)
  IN  IF a < 0 THEN -q ELSE q

-----------------------------------------------------------------------------
(* Aggregators                                                             *)

\* Whether a callback reading a property of each element throws: reading a
\* property of null is a TypeError.
ThrowsOnElement(list) == \E i \in 1..Len(list) : list[i].type = "null"

\* allProcesses.filter((process) => process.unidade === unidade)
ByUnidade(list, unidade) ==
  SelectSeq(list, LAMBDA process : process.unidade = unidade)

\* Mutant of ByUnidadeAndTabela: the unit is not compared.
ByUnidadeAndTabela_AnyUnit(list, tipoTabela, unidade) ==
  SelectSeq(list, LAMBDA process : process.tipo_tabela = tipoTabela)

\* allProcesses.filter((process) => process.unidade === unidade &&
\*                                  process.tipo_tabela === tipoTabela)
ByUnidadeAndTabela(list, tipoTabela, unidade) ==
  SelectSeq(list, LAMBDA process :
                    process.unidade = unidade /\ process.tipo_tabela = tipoTabela)

\* Mutant of KeysInOrder: a key is entered again each time it appears.
KeysInOrder_Repeated(list) == [i \in 1..Len(list) |-> list[i].tipo_tabela]

\* The keys of summaryMap in insertion order: each tipo_tabela where it
\* first appears.
RECURSIVE KeysInOrder(_)
KeysInOrder(list) ==
  IF Len(list) = 0 THEN <<>>
  ELSE LET front == KeysInOrder(SubSeq(list, 1, Len(list) - 1))
           key   == list[Len(list)].tipo_tabela
       IN  IF \E i \in 1..Len(front) : front[i] = key THEN front
           ELSE Append(front, key)

\* current.totalDias += parseFloat(process.dias)
RECURSIVE TotalDias(_)
TotalDias(list) ==
  IF Len(list) = 0 THEN 0
  ELSE parseFloat(list[1].dias).n + TotalDias(Tail(list))

\* One entry of summaryArray.
TabelaSummary(key, validProcesses) ==
  LET ofKey == SelectSeq(validProcesses, LAMBDA process : process.tipo_tabela = key)
      count == Len(ofKey)
  IN  [tipo_tabela |-> key,
       mediaDias |-> IF count > 0 THEN Ceil(TotalDias(ofKey), count) ELSE 0,
       quantidadeProcessos |-> count]

\* Mutant of ValidProcesses: zero days count as valid.
ValidProcesses_ZeroValid(list) ==
  SelectSeq(list, LAMBDA process :
                    IsFinite(parseFloat(process.dias)) /\ parseFloat(process.dias).n >= 0)

\* processesByUnidade.filter(...): the records the summary averages.
ValidProcesses(list) == SelectSeq(list, IsValidDias)

\* What an operation hands its caller: a value, or the exception thrown.
Value(v) == [outcome |-> "returned", value |-> v]
Thrown(name) == [outcome |-> name, value |-> <<>>]

getTabelasSummaryByUnidade(dir, unidade) ==
  LET allProcesses == readProcessesData(dir)
      processesByUnidade == ByUnidade(allProcesses, unidade)
      validProcesses == ValidProcesses(processesByUnidade)
      keys == KeysInOrder(validProcesses)
  IN  IF ThrowsOnElement(allProcesses) THEN Value(<<>>)
      ELSE IF Len(processesByUnidade) = 0 THEN Value(<<>>)
      ELSE IF Len(validProcesses) = 0 THEN Value(<<>>)
      ELSE Value([i \in 1..Len(keys) |-> TabelaSummary(keys[i], validProcesses)])

\* The running value of reduce((sum, process) => sum + process.dias, 0): a
\* number (possibly NaN) or, once a string has been added, a string.
SumNumber(x) == [t |-> "number", x |-> x, s |-> <<>>]
SumString(s) == [t |-> "string", x |-> NaN, s |-> s]

\* The decimal digits of a natural number.
RECURSIVE NatToString(_)
NatToString(n) ==
  IF n < 10 THEN <<DigitChar(n)>>
  ELSE Append(NatToString(n \div 10), DigitChar(n % 10))

\* String(x) of a number.
NumberToString(x) ==
  IF x.nan THEN <<"N", "a", "N">>
  ELSE IF x.n < 0 THEN <<"-">> \o NatToString(-x.n)
  ELSE NatToString(x.n)

\* String(v) of a value of dias.
DiasToString(v) ==
  CASE v.t = "number" -> NumberToString(Number(v.n))
    [] v.t = "string" -> v.s
    [] v.t = "null"   -> <<"n", "u", "l", "l">>
    [] OTHER          -> <<"u", "n", "d", "e", "f", "i", "n", "e", "d">>

\* sum + process.dias: concatenation when either side is a string, else
\* the sum of the numbers null (0), undefined (NaN) and the number itself.
Plus(sum, v) ==
  IF sum.t = "string" THEN SumString(sum.s \o DiasToString(v))
  ELSE IF v.t = "string" THEN SumString(NumberToString(sum.x) \o v.s)
  ELSE IF sum.x.nan \/ v.t = "undefined" THEN SumNumber(NaN)
  ELSE SumNumber(Number(sum.x.n + v.n))

RECURSIVE Reduce(_)
Reduce(list) ==
  IF Len(list) = 0 THEN SumNumber(Number(0))
  ELSE Plus(Reduce(SubSeq(list, 1, Len(list) - 1)), list[Len(list)].dias)

\* The number a string turns into when it is divided: the whole string has
\* to be a number.
StringToNumber(s) ==
  LET neg   == Len(s) >= 1 /\ s[1] = "-"
      first == IF neg THEN 2 ELSE 1
  IN  IF Len(s) = 0 THEN Number(0)
      ELSE IF Len(s) >= first /\ DigitsEnd(s, first) = Len(s) THEN ParsePrefix(s)
      ELSE NaN

\* parseFloat((totalDays / processesByUnidade.length).toFixed(2)), in
\* hundredths.
Average(totalDays, length) ==
  LET x == IF totalDays.t = "string" THEN StringToNumber(totalDays.s) ELSE totalDays.x
  IN  IF x.nan THEN NaN ELSE Number(ToFixed2(x.n, length))

\* No try around the body: what filter throws reaches the caller.
getOverallAverageDaysByUnidade(dir, unidade) ==
  LET allProcesses == readProcessesData(dir)
      processesByUnidade == ByUnidade(allProcesses, unidade)
  IN  IF ThrowsOnElement(allProcesses) THEN Thrown("TypeError")
      ELSE IF Len(processesByUnidade) = 0 THEN Value(Number(0))
      ELSE Value(Average(Reduce(processesByUnidade), Len(processesByUnidade)))

\* null, or the list of the matching records.
Null == [isNull |-> TRUE]

getProcessosByUnidadeAndTabela(dir, tipoTabela, unidade) ==
  LET allProcesses == readProcessesData(dir)
      filteredProcesses == ByUnidadeAndTabela(allProcesses, tipoTabela, unidade)
  IN  IF ThrowsOnElement(allProcesses) THEN Value(Null)
      ELSE IF Len(filteredProcesses) > 0
           THEN Value([isNull |-> FALSE, list |-> filteredProcesses])
      ELSE Value(Null)

\* Mutant of InThreshold: the test diasAsNumber > 0 is dropped.
InThreshold_NoLowerLimit(process, dias) ==
  LET diasAsNumber == parseFloat(process.dias)
  IN  IsFinite(diasAsNumber) /\ diasAsNumber.n <= dias

\* Number.isFinite(diasAsNumber) && diasAsNumber > 0 && diasAsNumber <= dias
InThreshold(process, dias) ==
  LET diasAsNumber == parseFloat(process.dias)
  IN  IsFinite(diasAsNumber) /\ diasAsNumber.n > 0 /\ diasAsNumber.n <= dias

\* Mutant of Percent: the hundredths are cut off instead of rounded.
Percent_Truncated(intervaloProcessos, quantidadeProcessos) ==
  (10000 * intervaloProcessos) \div quantidadeProcessos

\* parseFloat(((intervaloProcessos / quantidadeProcessos) * 100).toFixed(2)),
\* in hundredths.
Percent(intervaloProcessos, quantidadeProcessos) ==
  ToFixed2(100 * intervaloProcessos, quantidadeProcessos)

getDetailsByUnidadeAndTabela(dir, tipoTabela, unidade, dias) ==
  LET processes == getProcessosByUnidadeAndTabela(dir, tipoTabela, unidade).value
  IN  IF processes.isNull THEN Value(Null)
      ELSE LET quantidadeProcessos == Len(processes.list)
               intervaloProcessos ==
                 Len(SelectSeq(processes.list, LAMBDA process : InThreshold(process, dias)))
           IN  Value([isNull |-> FALSE,
                      tipo_tabela |-> tipoTabela,
                      quantidadeProcessos |-> quantidadeProcessos,
                      dias |-> intervaloProcessos,
                      percentualIntervaloDias |->
                        Percent(intervaloProcessos, quantidadeProcessos)])

\* Mutant of IsInvalidDias: only null and undefined are invalid.
IsInvalidDias_OnlyNull(process) ==
  process.dias.t \in {"null", "undefined"}

\* isNullOrUndefined || isNotValidNumberOrNegative
IsInvalidDias(process) ==
  LET diasValue == process.dias
      isNullOrUndefined == diasValue.t \in {"null", "undefined"}
      diasAsNumber == parseFloat(diasValue)
      isNotValidNumberOrNegative == ~IsFinite(diasAsNumber) \/ diasAsNumber.n <= 0
  IN  isNullOrUndefined \/ isNotValidNumberOrNegative

getInvalidProcessesDetails(dir, tipoTabela, unidade) ==
  LET allProcesses == readProcessesData(dir)
      processes == ByUnidadeAndTabela(allProcesses, tipoTabela, unidade)
  IN  IF ThrowsOnElement(allProcesses) THEN Value(Null)
      ELSE IF Len(processes) = 0 THEN Value(Null)
      ELSE Value([isNull |-> FALSE,
                  tipo_tabela |-> tipoTabela,
                  quantidadeProcessosInvalidos |-> Len(SelectSeq(processes, IsInvalidDias)),
                  totalGeralProcessos |-> Len(processes)])

\* The arguments the callers pass.
Unidades == {"U1", "U2"}
TiposTabela == {"T1", "T2"}
Thresholds == {-1, 0, 2, 5}

Args(tipoTabela, unidade, dias) ==
  [tipoTabela |-> tipoTabela, unidade |-> unidade, dias |-> dias]

GetTabelasSummaryByUnidade ==
  /\ \E unidade \in Unidades :
       call' = Call("getTabelasSummaryByUnidade", Args("", unidade, 0),
                    getTabelasSummaryByUnidade(dataDir, unidade))
  /\ UNCHANGED dataDir
  /\ UNCHANGED <<variant, remote, localDir, local>>
  /\ UNCHANGED reqVars

GetOverallAverageDaysByUnidade ==
  /\ \E unidade \in Unidades :
       call' = Call("getOverallAverageDaysByUnidade", Args("", unidade, 0),
                    getOverallAverageDaysByUnidade(dataDir, unidade))
  /\ UNCHANGED dataDir
  /\ UNCHANGED <<variant, remote, localDir, local>>
  /\ UNCHANGED reqVars

GetProcessosByUnidadeAndTabela ==
  /\ \E tipoTabela \in TiposTabela, unidade \in Unidades :
       call' = Call("getProcessosByUnidadeAndTabela", Args(tipoTabela, unidade, 0),
                    getProcessosByUnidadeAndTabela(dataDir, tipoTabela, unidade))
  /\ UNCHANGED dataDir
  /\ UNCHANGED <<variant, remote, localDir, local>>
  /\ UNCHANGED reqVars

GetDetailsByUnidadeAndTabela ==
  /\ \E tipoTabela \in TiposTabela, unidade \in Unidades, dias \in Thresholds :
       call' = Call("getDetailsByUnidadeAndTabela", Args(tipoTabela, unidade, dias),
                    getDetailsByUnidadeAndTabela(dataDir, tipoTabela, unidade, dias))
  /\ UNCHANGED dataDir
  /\ UNCHANGED <<variant, remote, localDir, local>>
  /\ UNCHANGED reqVars

GetInvalidProcessesDetails ==
  /\ \E tipoTabela \in TiposTabela, unidade \in Unidades :
       call' = Call("getInvalidProcessesDetails", Args(tipoTabela, unidade, 0),
                    getInvalidProcessesDetails(dataDir, tipoTabela, unidade))
  /\ UNCHANGED dataDir
  /\ UNCHANGED <<variant, remote, localDir, local>>
  /\ UNCHANGED reqVars

\* The longest list of records in the data file.
MaxRecords == 3

\* JSON.stringify of a list: the elements between brackets, commas between.
RECURSIVE Separated(_)
Separated(elems) ==
  IF Len(elems) = 0 THEN <<>>
  ELSE IF Len(elems) = 1 THEN elems
  ELSE <<elems[1], ",">> \o Separated(Tail(elems))

Encode(elems) == <<"[">> \o Separated(elems) \o <<"]">>

\* The lists of records of the data file, no record twice.
RecordLists ==
  UNION { { f \in [1..n -> RecTokens] : \A i, j \in 1..n : i # j => f[i] # f[j] }
          : n \in 0..MaxRecords }

\* Lists with a null among the elements.
NullLists ==
  { <<"null">> } \cup { <<"null", tok>> : tok \in RecTokens }
                 \cup { <<tok, "null">> : tok \in RecTokens }

\* The texts of the data file: every list, and texts that are no list.
DataTexts ==
  { Encode(l) : l \in RecordLists \cup NullLists } \cup {MapShape, Truncated}

DataDir(text, fault) ==
  [files |-> << [name |-> <<"tabela_processos", ".json">>, mtime |-> 1, data |-> text] >>,
   fault |-> fault]

-----------------------------------------------------------------------------
(* Specifications                                                          *)

\* The route, requests served one at a time.
Init ==
  /\ InitRoute
  /\ dataDir = [files |-> <<>>, fault |-> "none"]
  /\ call = NoCall

Next ==
  \/ EnvRemote
  \/ \E r \in Reqs : GET_Begin(r)
  \/ \E r \in Reqs : Step(r)
  \/ \E r \in Reqs : Finish(r)

Spec == Init /\ [][Next]_vars

\* The route, requests overlapping; each request slot serves one request.
NextConcurrent ==
  \/ EnvRemote
  \/ \E r \in Reqs : GET_BeginConcurrent(r)
  \/ \E r \in Reqs : Step(r)

SpecConcurrent == Init /\ [][NextConcurrent]_vars

\* The server actions over every data directory.
InitActions ==
  /\ variant = "A"
  /\ remote = [up |-> FALSE, data |-> <<>>]
  /\ local = [exists |-> FALSE, data |-> <<>>]
  /\ localDir = FALSE
  /\ pc = [r \in Reqs |-> "idle"]
  /\ numero = [r \in Reqs |-> Param(FALSE, "")]
  /\ fileContent = [r \in Reqs |-> <<>>]
  /\ attemptPath = [r \in Reqs |-> "remote"]
  /\ isRemoteSuccess = [r \in Reqs |-> FALSE]
  /\ load = [r \in Reqs |-> NoLoad]
  /\ response = [r \in Reqs |-> NoResponse]
  /\ remoteRead = [r \in Reqs |-> NoRead]
  /\ localRead = [r \in Reqs |-> NoRead]
  /\ backup = [r \in Reqs |-> "none"]
  /\ dataDir \in [files : Listings, fault : Faults]
  /\ call = NoCall

NextActions == GetProcessByNumber

SpecActions == InitActions /\ [][NextActions]_vars

\* The aggregators over every data file.
InitAggregate ==
  /\ variant = "A"
  /\ remote = [up |-> FALSE, data |-> <<>>]
  /\ local = [exists |-> FALSE, data |-> <<>>]
  /\ localDir = FALSE
  /\ pc = [r \in Reqs |-> "idle"]
  /\ numero = [r \in Reqs |-> Param(FALSE, "")]
  /\ fileContent = [r \in Reqs |-> <<>>]
  /\ attemptPath = [r \in Reqs |-> "remote"]
  /\ isRemoteSuccess = [r \in Reqs |-> FALSE]
  /\ load = [r \in Reqs |-> NoLoad]
  /\ response = [r \in Reqs |-> NoResponse]
  /\ remoteRead = [r \in Reqs |-> NoRead]
  /\ localRead = [r \in Reqs |-> NoRead]
  /\ backup = [r \in Reqs |-> "none"]
  /\ dataDir \in { DataDir(text, "none") : text \in DataTexts }
                   \cup { DataDir(ListOne, fault) : fault \in Faults }
  /\ call = NoCall

NextAggregate ==
  \/ GetTabelasSummaryByUnidade
  \/ GetOverallAverageDaysByUnidade
  \/ GetProcessosByUnidadeAndTabela
  \/ GetDetailsByUnidadeAndTabela
  \/ GetInvalidProcessesDetails

SpecAggregate == InitAggregate /\ [][NextAggregate]_vars

-----------------------------------------------------------------------------
(* Properties of the loader                                                *)

Done(r) == pc[r] = "done"

\* The text the load ended up working on: the primary's when its read
\* succeeded and no fallback happened, otherwise the secondary's.
PrimaryOk(r)  == remoteRead[r].result = "ok"
PrimaryDown(r) == remoteRead[r].result = "failed"
SecondaryOk(r) == localRead[r].result = "ok"
SecondaryDown(r) == localRead[r].result = "failed"

\* C1: a load whose primary read failed and whose secondary read gave text
\* that parses as a JSON list returns exactly that parsed list, and nothing
\* is thrown.
C1_Failover ==
  \A r \in Reqs :
    (Done(r) /\ PrimaryDown(r) /\ SecondaryOk(r)
       /\ JSONparse(localRead[r].data).kind = "list")
    => /\ load[r].outcome = "returned"
       /\ load[r].parsed = JSONparse(localRead[r].data)
       /\ load[r].err = NoErr

C1_Witness ==
  \E r \in Reqs :
    /\ Done(r) /\ PrimaryDown(r) /\ SecondaryOk(r)
    /\ JSONparse(localRead[r].data).kind = "list"
    /\ Len(JSONparse(localRead[r].data).value) > 1
    /\ load[r].outcome = "returned"

\* C2: once the primary's text has been read and does not parse, the load
\* ends with the parse error, and the secondary is never read (the backup
\* write not having failed: that case is C3's).
C2_CorruptPrimaryFatal ==
  \A r \in Reqs :
    (PrimaryOk(r) /\ backup[r] # "failed"
       /\ JSONparse(remoteRead[r].data).kind = "SyntaxError")
    => /\ localRead[r].result = "none"
       /\ Done(r) => /\ load[r].outcome = "threw"
                     /\ load[r].err.message = "Erro de parse"
                     /\ response[r].record = Undefined

\* C3: a failed backup write changes nothing for the caller: a load that
\* read a list from the primary returns that list, raises nothing and does
\* not turn to the secondary, although its backup write failed.
C3_WriteFailureSwallowed ==
  \A r \in Reqs :
    (Done(r) /\ PrimaryOk(r) /\ backup[r] = "failed"
       /\ JSONparse(remoteRead[r].data).kind = "list")
    => /\ load[r] = Returned(JSONparse(remoteRead[r].data))
       /\ localRead[r].result = "none"

\* C4 as stated, of the loader that has updateLocalCache: after every load
\* whose primary read succeeded, the secondary holds exactly the text read
\* from the primary, whether or not the write failed.
C4_SecondaryEqualsPrimary_Original ==
  \A r \in Reqs :
    (variant = "A" /\ Done(r) /\ PrimaryOk(r))
    => /\ local.exists
       /\ local.data = remoteRead[r].data

\* C4 amended: after a load whose primary read succeeded and whose backup
\* write completed without error (no other load writing meanwhile), the
\* parent directory exists and the secondary holds exactly the text read
\* from the primary.
C4_SecondaryEqualsPrimary ==
  \A r \in Reqs :
    (Done(r) /\ PrimaryOk(r) /\ backup[r] = "ok")
    => /\ localDir
       /\ local.exists
       /\ local.data = remoteRead[r].data

\* A backup write that had to create the directory and replaced a longer
\* file by a shorter text.
C4_Witness ==
  \E r \in Reqs :
    /\ Done(r) /\ PrimaryOk(r) /\ backup[r] = "ok"
    /\ local.data = remoteRead[r].data
    /\ local.data = ListOne

\* C5: when both reads fail the load throws an error that carries the
\* secondary read's error, and the response holds no record.
C5_TotalUnavailability ==
  \A r \in Reqs :
    (Done(r) /\ PrimaryDown(r) /\ SecondaryDown(r))
    => /\ load[r].outcome = "threw"
       /\ load[r].err.message = localError.message
       /\ response[r].record = Undefined
       /\ response[r].status \in {500, 503}

\* C6: text that parses to something other than a list makes the load fail
\* with the shape error; the value is neither returned nor searched.
C6_ShapeValidation ==
  \A r \in Reqs :
    (Done(r) /\ load[r].outcome # "none"
       /\ JSONparse(fileContent[r]).kind = "object")
    => /\ load[r].outcome = "threw"
       /\ response[r].status \notin {200, 404}

\* The text a finished load worked on.
Loaded(r) == JSONparse(fileContent[r])

HasMatch(list, id) ==
  \E i \in 1..Len(list) : list[i].type = "object" /\ list[i].processo = id

\* C7: the status of every response: 400 without a parameter and without any
\* read; 200 with a matching record when the load returned and some record
\* matches; 404 when it returned and none matches; 500 when the text loaded
\* is corrupt; 500 or 503 when both locations are unavailable.
C7_StatusMapping ==
  \A r \in Reqs :
    Done(r) =>
      LET id == KeyOf(variant, numero[r]) IN
      /\ ~numero[r].present =>
           response[r].status = 400 /\ remoteRead[r] = NoRead /\ localRead[r] = NoRead
      /\ (load[r].outcome = "returned" /\ HasMatch(load[r].parsed.value, id)) =>
           response[r].status = 200 /\ response[r].record.processo = id
      /\ (load[r].outcome = "returned" /\ ~HasMatch(load[r].parsed.value, id)) =>
           response[r].status = 404
      /\ (load[r].outcome # "none" /\ Loaded(r).kind = "SyntaxError") =>
           response[r].status = 500
      /\ (PrimaryDown(r) /\ SecondaryDown(r)) =>
           response[r].status \in {500, 503}

\* C8: with no write failing, once no backup write is under way the
\* secondary holds the whole text of one of the loads that wrote it, and a
\* fallback read always sees a whole snapshot.
WriteUnderWay(r) == pc[r] \in {"mkdir", "writeOpen", "writeData"}

C8_LastWriterWins ==
  (\A r \in Reqs : backup[r] # "failed")
  => /\ ((\E r \in Reqs : backup[r] = "ok") /\ (\A r \in Reqs : ~WriteUnderWay(r)))
          => \E r \in Reqs : backup[r] = "ok" /\ local.data = remoteRead[r].data
     /\ \A r \in Reqs : SecondaryOk(r) => localRead[r].data \in Snapshots

\* C9: after a backup write by a load, the secondary parses as a JSON list.
C9_BackupIsValidSnapshot ==
  \A r \in Reqs :
    (backup[r] = "ok" /\ pc[r] \in {"parse", "done"})
    => JSONparse(local.data).kind = "list"

-----------------------------------------------------------------------------
(* Properties of the finder                                                *)

\* The list the last call worked on.
Processes == readProcessesData(dataDir)

AllRecords(list) == \A i \in 1..Len(list) : list[i].type = "object"

Matches(list, id) == {i \in 1..Len(list) : list[i].processo = id}

FirstMatch(list, id) == CHOOSE i \in Matches(list, id) : \A j \in Matches(list, id) : i <= j

\* C10 as stated: over a list of records, getProcessByNumber(r.processo)
\* returns r itself for every record r of the list, and not-found exactly
\* when no record's processo equals the id.
C10_FindReturnsTheRecord_Original ==
  (call.op = "getProcessByNumber" /\ AllRecords(Processes))
  => /\ \A i \in Matches(Processes, call.arg) :
          call.result = [outcome |-> "found", record |-> Processes[i]]
     /\ call.result.outcome = "undefined" <=> Matches(Processes, call.arg) = {}

\* C10 amended: over a list of records, getProcessByNumber(id) returns the
\* first record in list order whose processo equals id, and not-found
\* exactly when no record's processo equals id.
C10_FindReturnsFirstMatch ==
  (call.op = "getProcessByNumber" /\ AllRecords(Processes))
  => IF Matches(Processes, call.arg) # {}
     THEN call.result = [outcome |-> "found",
                         record |-> Processes[FirstMatch(Processes, call.arg)]]
     ELSE call.result.outcome = "undefined" /\ call.result.record = Undefined

\* A call that found a record while a later record carries the same processo.
C10_Witness ==
  /\ call.op = "getProcessByNumber"
  /\ AllRecords(Processes)
  /\ Cardinality(Matches(Processes, call.arg)) > 1
  /\ call.result.outcome = "found"
  /\ \E i \in Matches(Processes, call.arg) : Processes[i] # call.result.record

-----------------------------------------------------------------------------
(* Properties of the aggregators                                           *)

\* The value dias is coerced to, and whether the record is valid: the
\* coerced value is a finite number greater than zero.
Coerced(process) == parseFloat(process.dias)

Valid(process) == ~Coerced(process).nan /\ Coerced(process).n > 0

\* The positions of the records of a unit, or of a category/unit pair.
OfUnit(list, unidade) == {i \in 1..Len(list) : list[i].unidade = unidade}

OfPair(list, tipoTabela, unidade) ==
  {i \in OfUnit(list, unidade) : list[i].tipo_tabela = tipoTabela}

ValidOfPair(list, tipoTabela, unidade) ==
  {i \in OfPair(list, tipoTabela, unidade) : Valid(list[i])}

\* The sum of the coerced dias at the positions S.
RECURSIVE SumDias(_, _)
SumDias(list, S) ==
  IF S = {} THEN 0
  ELSE LET i == CHOOSE x \in S : TRUE
       IN  Coerced(list[i]).n + SumDias(list, S \ {i})

\* The categories that occur in a list.
Categories(list) == {list[i].tipo_tabela : i \in 1..Len(list)}

Invalid(process) ==
  \/ process.dias.t \in {"null", "undefined"}
  \/ Coerced(process).nan
  \/ Coerced(process).n <= 0

\* The data file whose records have dias null, "abc", -1 and 5, all of the
\* pair T1 / U1.
ExampleDir == DataDir(Encode(<<"r4", "r5", "r6", "r1">>), "none")

\* C12: over a list of records, getInvalidProcessesDetails(category, unit)
\* is not-found exactly when no record matches the pair; otherwise its total
\* is the number of matching records and its invalid count the number of
\* them whose dias is null, undefined, not finite once coerced, or <= 0.
\* The dias values null, "abc", -1, 5 give invalid 3 of total 4.
C12_InvalidCount ==
  /\ (call.op = "getInvalidProcessesDetails" /\ AllRecords(Processes))
     => LET M   == OfPair(Processes, call.arg.tipoTabela, call.arg.unidade)
            res == call.result.value
        IN  /\ call.result.outcome = "returned"
            /\ res.isNull <=> M = {}
            /\ M # {} =>
                 /\ res.tipo_tabela = call.arg.tipoTabela
                 /\ res.totalGeralProcessos = Cardinality(M)
                 /\ res.quantidadeProcessosInvalidos =
                      Cardinality({i \in M : Invalid(Processes[i])})
  /\ call.op = "getInvalidProcessesDetails"
     => getInvalidProcessesDetails(ExampleDir, "T1", "U1").value
          = [isNull |-> FALSE, tipo_tabela |-> "T1",
             quantidadeProcessosInvalidos |-> 3, totalGeralProcessos |-> 4]

\* A call that counted a null and a non-numeric dias as invalid and a valid
\* record only in the total, beside a record of another pair.
C12_Witness ==
  /\ call.op = "getInvalidProcessesDetails"
  /\ AllRecords(Processes)
  /\ ~call.result.value.isNull
  /\ call.result.value.quantidadeProcessosInvalidos = 1
  /\ call.result.value.totalGeralProcessos = 2
  /\ Len(Processes) = 3
  /\ \E i \in OfPair(Processes, call.arg.tipoTabela, call.arg.unidade) :
       Processes[i].dias.t \in {"null", "string"}

\* C13: over a list of records, getDetailsByUnidadeAndTabela(category, unit,
\* threshold) is not-found exactly when no record matches the pair;
\* otherwise its total is the number of matching records and its
\* in-threshold count the number of them with 0 < dias <= threshold, a
\* count of zero included.
C13_Details ==
  (call.op = "getDetailsByUnidadeAndTabela" /\ AllRecords(Processes))
  => LET M   == OfPair(Processes, call.arg.tipoTabela, call.arg.unidade)
         res == call.result.value
     IN  /\ call.result.outcome = "returned"
         /\ res.isNull <=> M = {}
         /\ M # {} =>
              /\ res.tipo_tabela = call.arg.tipoTabela
              /\ res.quantidadeProcessos = Cardinality(M)
              /\ res.dias =
                   Cardinality({i \in M : /\ ~Coerced(Processes[i]).nan
                                          /\ 0 < Coerced(Processes[i]).n
                                          /\ Coerced(Processes[i]).n <= call.arg.dias})

\* A result, not not-found, for a pair with two matching records of which
\* none is within a positive threshold, beside a record of another pair.
C13_Witness ==
  /\ call.op = "getDetailsByUnidadeAndTabela"
  /\ AllRecords(Processes)
  /\ call.arg.dias > 0
  /\ ~call.result.value.isNull
  /\ call.result.value.quantidadeProcessos = 2
  /\ call.result.value.dias = 0
  /\ Len(Processes) = 3
  /\ \E i \in OfPair(Processes, call.arg.tipoTabela, call.arg.unidade) :
       Valid(Processes[i])

\* C14: every operation that reads dias classifies records by the same
\* rule (coerced value finite and > 0), so no operation takes into an
\* average a record that another counts as invalid: the overall average of
\* a unit is the mean, to two decimals, of the coerced dias of the unit's
\* valid records. Stated for records whose dias are all numbers.
C14_UniformValidity ==
  (/\ call.op = "getOverallAverageDaysByUnidade"
   /\ AllRecords(Processes)
   /\ \A i \in 1..Len(Processes) : Processes[i].dias.t = "number")
  => LET V == {i \in OfUnit(Processes, call.arg.unidade) : Valid(Processes[i])}
     IN  V # {} =>
           /\ call.result.outcome = "returned"
           /\ call.result.value = Number(ToFixed2(SumDias(Processes, V), Cardinality(V)))

\* C15: no exported operation throws: whatever the data directory holds,
\* lists with a null element included, every call ends with a result or a
\* sentinel and no exception reaches the caller.
C15_NeverThrows ==
  call.op # "none" => call.result.outcome \in {"returned", "found", "undefined"}

\* C16: in every result of getDetailsByUnidadeAndTabela, with total n > 0
\* and in-threshold count k, 0 <= k <= n and percentualIntervaloDias is
\* (k / n) * 100 rounded to two decimals (the nearest hundredth), hence
\* within 0..100; 1 of 3 gives 33.33. Percentages are in hundredths.
C16_Percentage ==
  call.op = "getDetailsByUnidadeAndTabela" =>
    /\ Percent(1, 3) = 3333
    /\ ~call.result.value.isNull =>
         LET n == call.result.value.quantidadeProcessos
             k == call.result.value.dias
             p == call.result.value.percentualIntervaloDias
             d == p * n - 10000 * k
         IN  /\ n > 0 /\ 0 <= k /\ k <= n
             /\ 2 * d <= n /\ -2 * d <= n
             /\ 0 <= p /\ p <= 10000

\* A result with one of three matching records within the threshold,
\* reported as 33.33 percent.
C16_Witness ==
  /\ call.op = "getDetailsByUnidadeAndTabela"
  /\ ~call.result.value.isNull
  /\ call.result.value.quantidadeProcessos = 3
  /\ call.result.value.dias = 1
  /\ call.result.value.percentualIntervaloDias = 3333

\* C17: over a list of records and for a pair that matches at least one
\* record, getDetailsByUnidadeAndTabela with a threshold of 0 or less
\* returns a result with in-threshold count 0 and percentage 0.
C17_ZeroThreshold ==
  (/\ call.op = "getDetailsByUnidadeAndTabela"
   /\ AllRecords(Processes)
   /\ call.arg.dias <= 0
   /\ OfPair(Processes, call.arg.tipoTabela, call.arg.unidade) # {})
  => /\ call.result.outcome = "returned"
     /\ ~call.result.value.isNull
     /\ call.result.value.dias = 0
     /\ call.result.value.percentualIntervaloDias = 0

\* A call with threshold 0 on a pair that has a record with dias 0 and a
\* record with valid dias.
C17_Witness ==
  /\ call.op = "getDetailsByUnidadeAndTabela"
  /\ AllRecords(Processes)
  /\ call.arg.dias = 0
  /\ \E i, j \in OfPair(Processes, call.arg.tipoTabela, call.arg.unidade) :
       /\ Processes[i].dias = Num(0)
       /\ Valid(Processes[j])
  /\ call.result.value.dias = 0

-----------------------------------------------------------------------------
(* Properties of the loader: reads, frame, totality                        *)

\* C18: in one load the secondary location is read only after, and only
\* because, the read of the primary itself failed: never after a primary
\* read that succeeded (a failed backup write or a parse failure do not
\* lead to it).
C18_SingleFallback ==
  \A r \in Reqs : localRead[r].result # "none" => remoteRead[r].result = "failed"

\* C19: a load changes nothing but the secondary location, and only by its
\* backup write after a primary read that succeeded: no step of a request
\* changes the primary location; the secondary (and its directory) changes
\* only in a write step of a request whose primary read succeeded and that
\* has not read the secondary; a request whose primary read failed, on the
\* fallback and on the total-failure path, leaves the secondary as it is.
C19_Frame ==
  [][ /\ (pc' # pc) => remote' = remote
      /\ (local' # local \/ localDir' # localDir)
           => \E r \in Reqs : /\ pc[r] \in {"mkdir", "writeOpen", "writeData"}
                              /\ pc'[r] # pc[r]
                              /\ PrimaryOk(r)
                              /\ localRead[r].result = "none"
      /\ \A r \in Reqs : (PrimaryDown(r) /\ pc'[r] # pc[r])
           => (local' = local /\ localDir' = localDir)
    ]_vars

\* A load served from the secondary after the primary read failed, the
\* secondary holding a snapshot and no write attempted.
C19_Witness ==
  \E r \in Reqs :
    /\ Done(r)
    /\ PrimaryDown(r)
    /\ SecondaryOk(r)
    /\ backup[r] = "none"
    /\ local = [exists |-> TRUE, data |-> localRead[r].data]
    /\ load[r].outcome = "returned"

\* C20: GET is total: whatever the numero parameter (empty, white space
\* only, holding a "%") and whatever the files, a request ends with a
\* response of status 200, 400, 404, 500 or 503 and no exception leaves
\* the handler.
C20_GetIsTotal ==
  \A r \in Reqs : Done(r) => response[r].status \in {200, 400, 404, 500, 503}

-----------------------------------------------------------------------------
(* Properties of the summary and of readProcessesData                      *)

\* The sum of quantidadeProcessos over a list of summaries.
RECURSIVE TotalCount(_)
TotalCount(summaries) ==
  IF Len(summaries) = 0 THEN 0
  ELSE summaries[1].quantidadeProcessos + TotalCount(Tail(summaries))

DataFiles ==
  {i \in 1..Len(dataDir.files) :
     /\ dataDir.files[i].name[1] = "tabela_processos"
     /\ dataDir.files[i].name[Len(dataDir.files[i].name)] = ".json"}

Newest == {i \in DataFiles : \A j \in DataFiles : dataDir.files[j].mtime <= dataDir.files[i].mtime}

\* The list a file's text stands for, empty when the text is no JSON list.
ListOf(text) ==
  IF JSONparse(text).kind = "list" THEN JSONparse(text).value ELSE <<>>

\* C22: the list readProcessesData loads for a call is the parsed list of
\* one file: of the files named tabela_processos....json, one with the
\* greatest modification time; it is the empty list when there is no such
\* file, when that file's content is not a JSON list, and when listing the
\* directory, a stat or the read fails. A data file whose text is cut
\* short, so that parsing it fails, gives the empty list too.
C22_Loader ==
  call.op = "getProcessByNumber" =>
    /\ IF dataDir.fault # "none" \/ DataFiles = {}
       THEN Processes = <<>>
       ELSE \E i \in Newest : Processes = ListOf(dataDir.files[i].data)
    /\ JSONparse(Truncated).kind = "SyntaxError"
    /\ readProcessesData(DataDir(Truncated, "none")) = <<>>

\* A call that loaded the records of the newer of two data files, which
\* comes second in the listing and differs from the older.
C22_Witness ==
  /\ call.op = "getProcessByNumber"
  /\ dataDir.fault = "none"
  /\ DataFiles = {1, 2}
  /\ Newest = {2}
  /\ Processes # <<>>
  /\ Processes = ListOf(dataDir.files[2].data)
  /\ Processes # ListOf(dataDir.files[1].data)

====
